---- MODULE Spec2Model ----
(***************************************************************************)
(* LoggedSyncRWMutex (package loggedrwmutex): a sync.RWMutex wrapped with  *)
(* six usage counters, guarded by an internal mutex mu, and optional debug *)
(* lines.  Goroutines call Lock, Unlock, RLock, RUnlock and PrintStatus on *)
(* instances; every statement of a method is one step of the goroutine     *)
(* that runs it.                                                           *)
(*                                                                         *)
(* A uint64 counter is held as the integer congruent to it modulo 2^64     *)
(* that is nearest to zero: 0, 1, 2, ... stand for themselves and -1       *)
(* stands for 2^64-1 (the result of decrementing 0).  "x > 0" on a uint64  *)
(* is therefore "x # 0" here.                                              *)
(***************************************************************************)
EXTENDS Integers, Sequences, FiniteSets

\* Goroutines of the model, and the Lock, RLock and PrintStatus calls they may
\* start in all (a release is always allowed).
NumProcs == 3
MaxCalls == 3

\* Goroutines and calls of the specifications that vary the debug flags or
\* use two instances.
SmallProcs == 2
SmallCalls == 2

Procs == 1..NumProcs
Instances == {"A", "B"}
NoProc == 0
NoInst == "-"
NoHold == <<NoInst, "none">>

VARIABLES
    DisableLogging,  \* process-wide flag
    GlobalDebug,     \* process-wide flag
    DebugAll, DebugLock, DebugUnlock, DebugRLock, DebugRUnlock, \* per instance
    mu,              \* per instance: the goroutine holding the internal mutex
    lockedCount, rLockedCount,
    totalLocked, totalUnlocked, totalrLocked, totalrUnlocked,
    RWMutex,         \* per instance: the embedded delegate sync.RWMutex
    op,              \* per goroutine: the method it is inside, or "none"
    inst,            \* per goroutine: the instance of that call
    forceprint,      \* per goroutine: PrintStatus's argument
    pc,              \* per goroutine: index of its next statement
    sub,             \* per goroutine: step inside a two-step statement
    reg,             \* per goroutine: the counter value it has loaded
    held,            \* per goroutine: <<instance, "W"|"R">> it holds
    ret,             \* per goroutine: PrintStatus's (locked, rlocked)
    emitted,         \* per goroutine: lines its current/last call emitted
    out,             \* the lines written to standard output, in order
    returned,        \* per instance and method: calls that have returned
    budget,          \* Lock, RLock and PrintStatus calls that may still start
    refs,            \* per goroutine: the instances it has a pointer to
    lockHeld,        \* the test's flag, toggled by its writer goroutine
    tError,          \* the test's reader has reported a failure
    tpc,             \* per goroutine: its line in the test, or "off"
    crashed          \* the runtime has thrown a fatal error

\* The state of the test function; no method of the package touches it.
testVars == <<lockHeld, tError, tpc>>

flagVars == <<DisableLogging, GlobalDebug, DebugAll, DebugLock, DebugUnlock,
              DebugRLock, DebugRUnlock, refs, testVars>>
counterVars == <<lockedCount, rLockedCount, totalLocked, totalUnlocked,
                 totalrLocked, totalrUnlocked>>
localVars == <<op, inst, forceprint, pc, sub, reg, held, ret, emitted,
               returned, budget>>
vars == <<flagVars, counterVars, localVars, mu, RWMutex, out, crashed>>

Methods == {"Lock", "Unlock", "RLock", "RUnlock", "PrintStatus"}

(***************************************************************************)
(* The methods, as the sequences of statements the source executes.        *)
(***************************************************************************)
S(k) == <<k>>

\* Lock taking the delegate's shared lock (RLock's last line copied).
LockBodyShared ==
    (IF ~DisableLogging
     THEN << S("muLock"),
             <<"inc", "lockedCount">>,
             <<"inc", "totalLocked">>,
             <<"print", "DebugLock", "Lock", "lockedCount", "totalLocked">>,
             S("muUnlock") >>
     ELSE << >>)
    \o << S("rwRLock") >>

\* Lock counting and logging whatever DisableLogging says.
LockBodyAlwaysCount ==
    << S("muLock"),
       <<"inc", "lockedCount">>,
       <<"inc", "totalLocked">>,
       <<"print", "DebugLock", "Lock", "lockedCount", "totalLocked">>,
       S("muUnlock"),
       S("rwLock") >>

\* Lock counting and logging after it has acquired the delegate.
LockBodyCountAfter ==
    << S("rwLock") >>
    \o (IF ~DisableLogging
        THEN << S("muLock"),
                <<"inc", "lockedCount">>,
                <<"inc", "totalLocked">>,
                <<"print", "DebugLock", "Lock", "lockedCount", "totalLocked">>,
                S("muUnlock") >>
        ELSE << >>)

\* Lock with "defer m.mu.Unlock()": mu is released when Lock returns.
LockBodyDeferUnlock ==
    (IF ~DisableLogging
     THEN << S("muLock"),
             <<"inc", "lockedCount">>,
             <<"inc", "totalLocked">>,
             <<"print", "DebugLock", "Lock", "lockedCount", "totalLocked">> >>
     ELSE << >>)
    \o << S("rwLock") >>
    \o (IF ~DisableLogging THEN << S("muUnlock") >> ELSE << >>)

\* Lock without its m.mu.Unlock().
LockBodyNoMuUnlock ==
    (IF ~DisableLogging
     THEN << S("muLock"),
             <<"inc", "lockedCount">>,
             <<"inc", "totalLocked">>,
             <<"print", "DebugLock", "Lock", "lockedCount", "totalLocked">> >>
     ELSE << >>)
    \o << S("rwLock") >>

\* Lock updating lockedCount and totalLocked in two critical sections.
LockBodyTwoSections ==
    (IF ~DisableLogging
     THEN << S("muLock"),
             <<"inc", "lockedCount">>,
             S("muUnlock"),
             S("muLock"),
             <<"inc", "totalLocked">>,
             <<"print", "DebugLock", "Lock", "lockedCount", "totalLocked">>,
             S("muUnlock") >>
     ELSE << >>)
    \o << S("rwLock") >>

\* Lock without its lockedCount++.
LockBodyNoInc ==
    (IF ~DisableLogging
     THEN << S("muLock"),
             <<"inc", "totalLocked">>,
             <<"print", "DebugLock", "Lock", "lockedCount", "totalLocked">>,
             S("muUnlock") >>
     ELSE << >>)
    \o << S("rwLock") >>

\* Lock printing its line after m.mu.Unlock(), as an earlier version of the
\* file did.
LockBodyPrintAfterUnlock ==
    (IF ~DisableLogging
     THEN << S("muLock"),
             <<"inc", "lockedCount">>,
             <<"inc", "totalLocked">>,
             S("muUnlock"),
             <<"print", "DebugLock", "Lock", "lockedCount", "totalLocked">> >>
     ELSE << >>)
    \o << S("rwLock") >>

LockBody ==
    (IF ~DisableLogging
     THEN << S("muLock"),
             <<"inc", "lockedCount">>,
             <<"inc", "totalLocked">>,
             <<"print", "DebugLock", "Lock", "lockedCount", "totalLocked">>,
             S("muUnlock") >>
     ELSE << >>)
    \o << S("rwLock") >>

\* Unlock without its lockedCount--.
UnlockBodyNoDec ==
    << S("rwUnlock") >>
    \o (IF ~DisableLogging
        THEN << S("muLock"),
                <<"inc", "totalUnlocked">>,
                <<"print", "DebugUnlock", "Unlock", "lockedCount", "totalUnlocked">>,
                S("muUnlock") >>
        ELSE << >>)

\* Unlock counting into totalLocked instead of totalUnlocked.
UnlockBodyWrongTotal ==
    << S("rwUnlock") >>
    \o (IF ~DisableLogging
        THEN << S("muLock"),
                <<"dec", "lockedCount">>,
                <<"inc", "totalLocked">>,
                <<"print", "DebugUnlock", "Unlock", "lockedCount", "totalUnlocked">>,
                S("muUnlock") >>
        ELSE << >>)

\* Unlock updating the counters before it releases the delegate.
UnlockBodyCountFirst ==
    (IF ~DisableLogging
     THEN << S("muLock"),
             <<"dec", "lockedCount">>,
             <<"inc", "totalUnlocked">>,
             <<"print", "DebugUnlock", "Unlock", "lockedCount", "totalUnlocked">>,
             S("muUnlock") >>
     ELSE << >>)
    \o << S("rwUnlock") >>

\* Unlock testing DebugLock before it prints (Lock's condition copied).
UnlockBodyWrongFlag ==
    << S("rwUnlock") >>
    \o (IF ~DisableLogging
        THEN << S("muLock"),
                <<"dec", "lockedCount">>,
                <<"inc", "totalUnlocked">>,
                <<"print", "DebugLock", "Unlock", "lockedCount", "totalUnlocked">>,
                S("muUnlock") >>
        ELSE << >>)

\* Unlock taking its call back out of totalLocked.
UnlockBodyDecTotal ==
    << S("rwUnlock") >>
    \o (IF ~DisableLogging
        THEN << S("muLock"),
                <<"dec", "lockedCount">>,
                <<"dec", "totalLocked">>,
                <<"print", "DebugUnlock", "Unlock", "lockedCount", "totalUnlocked">>,
                S("muUnlock") >>
        ELSE << >>)

UnlockBody ==
    << S("rwUnlock") >>
    \o (IF ~DisableLogging
        THEN << S("muLock"),
                <<"dec", "lockedCount">>,
                <<"inc", "totalUnlocked">>,
                <<"print", "DebugUnlock", "Unlock", "lockedCount", "totalUnlocked">>,
                S("muUnlock") >>
        ELSE << >>)

\* RLock taking the delegate's exclusive lock (Lock's last line copied).
RLockBodyExclusive ==
    (IF ~DisableLogging
     THEN << S("muLock"),
             <<"inc", "rLockedCount">>,
             <<"inc", "totalrLocked">>,
             <<"print", "DebugRLock", "RLock", "rLockedCount", "totalrLocked">>,
             S("muUnlock") >>
     ELSE << >>)
    \o << S("rwLock") >>

\* RLock updating the counters without taking mu.
RLockBodyNoMu ==
    (IF ~DisableLogging
     THEN << <<"inc", "rLockedCount">>,
             <<"inc", "totalrLocked">>,
             <<"print", "DebugRLock", "RLock", "rLockedCount", "totalrLocked">> >>
     ELSE << >>)
    \o << S("rwRLock") >>

RLockBody ==
    (IF ~DisableLogging
     THEN << S("muLock"),
             <<"inc", "rLockedCount">>,
             <<"inc", "totalrLocked">>,
             <<"print", "DebugRLock", "RLock", "rLockedCount", "totalrLocked">>,
             S("muUnlock") >>
     ELSE << >>)
    \o << S("rwRLock") >>

\* RUnlock decrementing lockedCount (Unlock's line copied).
RUnlockBodyWrongCounter ==
    << S("rwRUnlock") >>
    \o (IF ~DisableLogging
        THEN << S("muLock"),
                <<"dec", "lockedCount">>,
                <<"inc", "totalrUnlocked">>,
                <<"print", "DebugRUnlock", "RUnlock", "rLockedCount", "totalrUnlocked">>,
                S("muUnlock") >>
        ELSE << >>)

\* RUnlock counting and logging before it releases the delegate.
RUnlockBodyCountFirst ==
    (IF ~DisableLogging
     THEN << S("muLock"),
             <<"dec", "rLockedCount">>,
             <<"inc", "totalrUnlocked">>,
             <<"print", "DebugRUnlock", "RUnlock", "rLockedCount", "totalrUnlocked">>,
             S("muUnlock") >>
     ELSE << >>)
    \o << S("rwRUnlock") >>

RUnlockBody ==
    << S("rwRUnlock") >>
    \o (IF ~DisableLogging
        THEN << S("muLock"),
                <<"dec", "rLockedCount">>,
                <<"inc", "totalrUnlocked">>,
                <<"print", "DebugRUnlock", "RUnlock", "rLockedCount", "totalrUnlocked">>,
                S("muUnlock") >>
        ELSE << >>)

\* PrintStatus without its "defer m.mu.Unlock()".
PrintStatusBodyNoUnlock ==
    IF ~DisableLogging
    THEN << S("return") >>
    ELSE << S("muLock"), S("status"), S("return") >>

\* "if !DisableLogging { return }", then mu.Lock(), "defer mu.Unlock()", the
\* conditional Printf, and the bare return of the named results.
PrintStatusBody ==
    IF ~DisableLogging
    THEN << S("return") >>
    ELSE << S("muLock"), S("status"), S("return"), S("muUnlock") >>

Body(o) ==
    CASE o = "Lock" -> LockBody
      [] o = "Unlock" -> UnlockBody
      [] o = "RLock" -> RLockBody
      [] o = "RUnlock" -> RUnlockBody
      [] o = "PrintStatus" -> PrintStatusBody

\* The statement goroutine t executes next, and the instance it is on.
Stmt(t) == Body(op[t])[pc[t]]
Kind(t) == Stmt(t)[1]
Running(t) == ~crashed /\ op[t] # "none"

Counter(m, c) ==
    CASE c = "lockedCount" -> lockedCount[m]
      [] c = "rLockedCount" -> rLockedCount[m]
      [] c = "totalLocked" -> totalLocked[m]
      [] c = "totalUnlocked" -> totalUnlocked[m]
      [] c = "totalrLocked" -> totalrLocked[m]
      [] c = "totalrUnlocked" -> totalrUnlocked[m]

SetCounter(m, c, v) ==
    /\ lockedCount' = IF c = "lockedCount" THEN [lockedCount EXCEPT ![m] = v] ELSE lockedCount
    /\ rLockedCount' = IF c = "rLockedCount" THEN [rLockedCount EXCEPT ![m] = v] ELSE rLockedCount
    /\ totalLocked' = IF c = "totalLocked" THEN [totalLocked EXCEPT ![m] = v] ELSE totalLocked
    /\ totalUnlocked' = IF c = "totalUnlocked" THEN [totalUnlocked EXCEPT ![m] = v] ELSE totalUnlocked
    /\ totalrLocked' = IF c = "totalrLocked" THEN [totalrLocked EXCEPT ![m] = v] ELSE totalrLocked
    /\ totalrUnlocked' = IF c = "totalrUnlocked" THEN [totalrUnlocked EXCEPT ![m] = v] ELSE totalrUnlocked

Flag(m, f) ==
    CASE f = "DebugLock" -> DebugLock[m]
      [] f = "DebugUnlock" -> DebugUnlock[m]
      [] f = "DebugRLock" -> DebugRLock[m]
      [] f = "DebugRUnlock" -> DebugRUnlock[m]

\* What the caller holds once method o on m has returned.
HeldAfter(o, m, h) ==
    CASE o = "Lock" -> <<m, "W">>
      [] o = "RLock" -> <<m, "R">>
      [] OTHER -> h

\* Control passes to the next statement; after the last one the call returns.
Advance(t) ==
    IF pc[t] < Len(Body(op[t]))
    THEN /\ pc' = [pc EXCEPT ![t] = @ + 1]
         /\ UNCHANGED <<op, inst, forceprint, held, returned>>
    ELSE /\ pc' = [pc EXCEPT ![t] = 0]
         /\ op' = [op EXCEPT ![t] = "none"]
         /\ inst' = [inst EXCEPT ![t] = NoInst]
         /\ forceprint' = [forceprint EXCEPT ![t] = FALSE]
         /\ held' = [held EXCEPT ![t] = HeldAfter(op[t], inst[t], @)]
         /\ returned' = [returned EXCEPT ![inst[t]][op[t]] = @ + 1]

Stay(t) == UNCHANGED <<pc, op, inst, forceprint, held, returned>>

Fatal ==
    /\ crashed' = TRUE
    /\ UNCHANGED <<flagVars, counterVars, localVars, mu, RWMutex, out>>

(***************************************************************************)
(* Calls.  A goroutine that holds nothing may start Lock, RLock or         *)
(* PrintStatus on an instance it references; one that holds an instance    *)
(* releases it with the matching method (paired, non-nested usage) and may *)
(* meanwhile call PrintStatus.                                             *)
(***************************************************************************)
Enter(t, o, m, f) ==
    /\ op' = [op EXCEPT ![t] = o]
    /\ inst' = [inst EXCEPT ![t] = m]
    /\ forceprint' = [forceprint EXCEPT ![t] = f]
    /\ pc' = [pc EXCEPT ![t] = 1]
    /\ emitted' = [emitted EXCEPT ![t] = 0]
    /\ UNCHANGED <<flagVars, counterVars, sub, reg, returned, mu, RWMutex, out,
                   crashed>>

Lock(t, m) ==
    /\ ~crashed /\ op[t] = "none" /\ held[t] = NoHold
    /\ m \in refs[t] /\ budget > 0
    /\ Enter(t, "Lock", m, FALSE)
    /\ budget' = budget - 1
    /\ UNCHANGED <<held, ret>>

Unlock(t) ==
    /\ ~crashed /\ op[t] = "none" /\ held[t][2] = "W"
    /\ Enter(t, "Unlock", held[t][1], FALSE)
    /\ held' = [held EXCEPT ![t] = NoHold]
    /\ UNCHANGED <<budget, ret>>

RLock(t, m) ==
    /\ ~crashed /\ op[t] = "none" /\ held[t] = NoHold
    /\ m \in refs[t] /\ budget > 0
    /\ Enter(t, "RLock", m, FALSE)
    /\ budget' = budget - 1
    /\ UNCHANGED <<held, ret>>

RUnlock(t) ==
    /\ ~crashed /\ op[t] = "none" /\ held[t][2] = "R"
    /\ Enter(t, "RUnlock", held[t][1], FALSE)
    /\ held' = [held EXCEPT ![t] = NoHold]
    /\ UNCHANGED <<budget, ret>>

\* The named results locked and rlocked start as false.
PrintStatus(t, m, f) ==
    /\ ~crashed /\ op[t] = "none"
    /\ m \in refs[t] /\ budget > 0
    /\ Enter(t, "PrintStatus", m, f)
    /\ budget' = budget - 1
    /\ ret' = [ret EXCEPT ![t] = <<FALSE, FALSE>>]
    /\ UNCHANGED held

(***************************************************************************)
(* Statements of the internal mutex mu.                                    *)
(***************************************************************************)
\* mu as one package-level mutex shared by all instances.
MuLockGlobal(t) ==
    /\ Running(t) /\ Kind(t) = "muLock"
    /\ \A m \in Instances : mu[m] = NoProc
    /\ mu' = [mu EXCEPT ![inst[t]] = t]
    /\ Advance(t)
    /\ UNCHANGED <<flagVars, counterVars, sub, reg, ret, emitted, budget,
                   RWMutex, out, crashed>>

MuLock(t) ==
    /\ Running(t) /\ Kind(t) = "muLock"
    /\ mu[inst[t]] = NoProc
    /\ mu' = [mu EXCEPT ![inst[t]] = t]
    /\ Advance(t)
    /\ UNCHANGED <<flagVars, counterVars, sub, reg, ret, emitted, budget,
                   RWMutex, out, crashed>>

MuUnlock(t) ==
    /\ Running(t) /\ Kind(t) = "muUnlock"
    /\ IF mu[inst[t]] # NoProc
       THEN /\ mu' = [mu EXCEPT ![inst[t]] = NoProc]
            /\ Advance(t)
            /\ UNCHANGED <<flagVars, counterVars, sub, reg, ret, emitted,
                           budget, RWMutex, out, crashed>>
       ELSE Fatal

(***************************************************************************)
(* c++ and c-- on a counter: a load and a store.                           *)
(***************************************************************************)
Load(t) ==
    /\ Running(t) /\ Kind(t) \in {"inc", "dec"} /\ sub[t] = 0
    /\ reg' = [reg EXCEPT ![t] = Counter(inst[t], Stmt(t)[2])]
    /\ sub' = [sub EXCEPT ![t] = 1]
    /\ Stay(t)
    /\ UNCHANGED <<flagVars, counterVars, ret, emitted, budget, mu, RWMutex,
                   out, crashed>>

Store(t) ==
    /\ Running(t) /\ Kind(t) \in {"inc", "dec"} /\ sub[t] = 1
    /\ SetCounter(inst[t], Stmt(t)[2],
                  IF Kind(t) = "inc" THEN reg[t] + 1 ELSE reg[t] - 1)
    /\ reg' = [reg EXCEPT ![t] = 0]
    /\ sub' = [sub EXCEPT ![t] = 0]
    /\ Advance(t)
    /\ UNCHANGED <<flagVars, ret, emitted, budget, mu, RWMutex, out, crashed>>

(***************************************************************************)
(* Output.                                                                 *)
(***************************************************************************)
Line(label, m, vals) == [op |-> label, name |-> m, vals |-> vals]

\* if m.DebugX || m.DebugAll || GlobalDebug { fmt.Printf(...) }
Printf(t) ==
    /\ Running(t) /\ Kind(t) = "print"
    /\ LET m == inst[t]
           s == Stmt(t)
       IN IF Flag(m, s[2]) \/ DebugAll[m] \/ GlobalDebug
          THEN /\ out' = Append(out, Line(s[3], m, <<Counter(m, s[4]), Counter(m, s[5])>>))
               /\ emitted' = [emitted EXCEPT ![t] = @ + 1]
          ELSE UNCHANGED <<out, emitted>>
    /\ Advance(t)
    /\ UNCHANGED <<flagVars, counterVars, sub, reg, ret, budget, mu, RWMutex,
                   crashed>>

\* if m.lockedCount > 0 || m.rLockedCount > 0 || forceprint { fmt.Printf(...) }
Status(t) ==
    /\ Running(t) /\ Kind(t) = "status"
    /\ LET m == inst[t]
       IN IF lockedCount[m] # 0 \/ rLockedCount[m] # 0 \/ forceprint[t]
          THEN /\ out' = Append(out, Line("Status", m,
                              <<lockedCount[m], rLockedCount[m], totalLocked[m],
                                totalUnlocked[m], totalrLocked[m], totalrUnlocked[m]>>))
               /\ emitted' = [emitted EXCEPT ![t] = @ + 1]
          ELSE UNCHANGED <<out, emitted>>
    /\ Advance(t)
    /\ UNCHANGED <<flagVars, counterVars, sub, reg, ret, budget, mu, RWMutex,
                   crashed>>

\* The bare return: the results are the named results as they stand.
Return(t) ==
    /\ Running(t) /\ Kind(t) = "return"
    /\ Advance(t)
    /\ UNCHANGED <<flagVars, counterVars, sub, reg, ret, emitted, budget, mu,
                   RWMutex, out, crashed>>

(***************************************************************************)
(* The delegate sync.RWMutex.  w: write-locked.  pending: a writer has     *)
(* announced itself (it holds the writers' mutex), which blocks new        *)
(* readers until that writer has unlocked.  readers: active readers.       *)
(***************************************************************************)
RwAnnounce(t) ==
    /\ Running(t) /\ Kind(t) = "rwLock" /\ sub[t] = 0
    /\ ~RWMutex[inst[t]].pending
    /\ RWMutex' = [RWMutex EXCEPT ![inst[t]].pending = TRUE]
    /\ sub' = [sub EXCEPT ![t] = 1]
    /\ Stay(t)
    /\ UNCHANGED <<flagVars, counterVars, reg, ret, emitted, budget, mu, out,
                   crashed>>

RwLock(t) ==
    /\ Running(t) /\ Kind(t) = "rwLock" /\ sub[t] = 1
    /\ RWMutex[inst[t]].readers = 0
    /\ RWMutex' = [RWMutex EXCEPT ![inst[t]].w = TRUE]
    /\ sub' = [sub EXCEPT ![t] = 0]
    /\ Advance(t)
    /\ UNCHANGED <<flagVars, counterVars, reg, ret, emitted, budget, mu, out,
                   crashed>>

RwUnlock(t) ==
    /\ Running(t) /\ Kind(t) = "rwUnlock"
    /\ IF RWMutex[inst[t]].w
       THEN /\ RWMutex' = [RWMutex EXCEPT ![inst[t]].w = FALSE,
                                          ![inst[t]].pending = FALSE]
            /\ Advance(t)
            /\ UNCHANGED <<flagVars, counterVars, sub, reg, ret, emitted,
                           budget, mu, out, crashed>>
       ELSE Fatal

RwRLock(t) ==
    /\ Running(t) /\ Kind(t) = "rwRLock"
    /\ ~RWMutex[inst[t]].pending
    /\ RWMutex' = [RWMutex EXCEPT ![inst[t]].readers = @ + 1]
    /\ Advance(t)
    /\ UNCHANGED <<flagVars, counterVars, sub, reg, ret, emitted, budget, mu,
                   out, crashed>>

RwRUnlock(t) ==
    /\ Running(t) /\ Kind(t) = "rwRUnlock"
    /\ IF RWMutex[inst[t]].readers > 0
       THEN /\ RWMutex' = [RWMutex EXCEPT ![inst[t]].readers = @ - 1]
            /\ Advance(t)
            /\ UNCHANGED <<flagVars, counterVars, sub, reg, ret, emitted,
                           budget, mu, out, crashed>>
       ELSE Fatal

\* TryLock and TryRLock are promoted from the embedded sync.RWMutex: a call
\* runs in the delegate alone, never blocks, and touches no counter.  TryLock
\* succeeds if no writer has announced itself and no reader is active,
\* TryRLock if no writer has announced itself; a caller that succeeded holds
\* the lock and releases it with Unlock or RUnlock.
TryLock(t, m) ==
    /\ ~crashed /\ op[t] = "none" /\ held[t] = NoHold
    /\ m \in refs[t] /\ budget > 0
    /\ budget' = budget - 1
    /\ IF ~RWMutex[m].pending /\ RWMutex[m].readers = 0
       THEN /\ RWMutex' = [RWMutex EXCEPT ![m].w = TRUE, ![m].pending = TRUE]
            /\ held' = [held EXCEPT ![t] = <<m, "W">>]
       ELSE UNCHANGED <<RWMutex, held>>
    /\ UNCHANGED <<flagVars, counterVars, op, inst, forceprint, pc, sub, reg,
                   ret, emitted, returned, mu, out, crashed>>

TryRLock(t, m) ==
    /\ ~crashed /\ op[t] = "none" /\ held[t] = NoHold
    /\ m \in refs[t] /\ budget > 0
    /\ budget' = budget - 1
    /\ IF ~RWMutex[m].pending
       THEN /\ RWMutex' = [RWMutex EXCEPT ![m].readers = @ + 1]
            /\ held' = [held EXCEPT ![t] = <<m, "R">>]
       ELSE UNCHANGED <<RWMutex, held>>
    /\ UNCHANGED <<flagVars, counterVars, op, inst, forceprint, pc, sub, reg,
                   ret, emitted, returned, mu, out, crashed>>

\* One statement of goroutine t.
Exec(t) ==
    \/ MuLock(t) \/ MuUnlock(t) \/ Load(t) \/ Store(t)
    \/ Printf(t) \/ Status(t) \/ Return(t)
    \/ RwAnnounce(t) \/ RwLock(t) \/ RwUnlock(t) \/ RwRLock(t) \/ RwRUnlock(t)

Call(t) ==
    \/ \E m \in Instances : Lock(t, m) \/ RLock(t, m)
    \/ \E m \in Instances, f \in BOOLEAN : PrintStatus(t, m, f)
    \/ Unlock(t) \/ RUnlock(t)

(***************************************************************************)
(* Initial states: fresh instances, the flags set before first use.        *)
(***************************************************************************)
Fresh ==
    /\ mu = [m \in Instances |-> NoProc]
    /\ lockedCount = [m \in Instances |-> 0]
    /\ rLockedCount = [m \in Instances |-> 0]
    /\ totalLocked = [m \in Instances |-> 0]
    /\ totalUnlocked = [m \in Instances |-> 0]
    /\ totalrLocked = [m \in Instances |-> 0]
    /\ totalrUnlocked = [m \in Instances |-> 0]
    /\ RWMutex = [m \in Instances |-> [w |-> FALSE, pending |-> FALSE, readers |-> 0]]
    /\ op = [t \in Procs |-> "none"]
    /\ inst = [t \in Procs |-> NoInst]
    /\ forceprint = [t \in Procs |-> FALSE]
    /\ pc = [t \in Procs |-> 0]
    /\ sub = [t \in Procs |-> 0]
    /\ reg = [t \in Procs |-> 0]
    /\ held = [t \in Procs |-> NoHold]
    /\ ret = [t \in Procs |-> <<FALSE, FALSE>>]
    /\ emitted = [t \in Procs |-> 0]
    /\ out = << >>
    /\ returned = [m \in Instances |-> [o \in Methods |-> 0]]
    /\ crashed = FALSE

\* No goroutine runs the test function.
NoTest ==
    /\ lockHeld = FALSE
    /\ tError = FALSE
    /\ tpc = [t \in Procs |-> "off"]

NoDebug ==
    /\ DebugAll = [m \in Instances |-> FALSE]
    /\ DebugLock = [m \in Instances |-> FALSE]
    /\ DebugUnlock = [m \in Instances |-> FALSE]
    /\ DebugRLock = [m \in Instances |-> FALSE]
    /\ DebugRUnlock = [m \in Instances |-> FALSE]

\* All goroutines share instance "A", with no debug flag set; logging is
\* disabled or not.
Init ==
    /\ Fresh
    /\ NoDebug
    /\ NoTest
    /\ DisableLogging \in BOOLEAN
    /\ GlobalDebug = FALSE
    /\ refs = [t \in Procs |-> {"A"}]
    /\ budget = MaxCalls

Next == \E t \in Procs : Call(t) \/ Exec(t)

Spec == Init /\ [][Next]_vars

\* The steps of goroutine t that touch only the wrapper's own state.
WrapperStep(t) ==
    \/ MuLock(t) \/ MuUnlock(t) \/ Load(t) \/ Store(t)
    \/ Printf(t) \/ Status(t) \/ Return(t)

\* A goroutine that can run does run, and sync's mutex hands mu to every
\* waiter in turn.  Nothing obliges a caller to start a call, nor the
\* delegate to make progress.
FairSpec ==
    /\ Spec
    /\ \A t \in Procs : WF_vars(WrapperStep(t)) /\ SF_vars(MuLock(t))

\* The first SmallProcs goroutines have pointers to the instances ms, the
\* others to none.
ActiveRefs(ms) == [t \in Procs |-> IF t <= SmallProcs THEN ms ELSE {}]

FlagOnA(b) == [m \in Instances |-> m = "A" /\ b]

\* Two goroutines share instance "A"; its five debug flags, GlobalDebug and
\* DisableLogging are set any way before first use.
InitDebug ==
    /\ Fresh
    /\ NoTest
    /\ \E a, l, u, r, ru \in BOOLEAN :
          /\ DebugAll = FlagOnA(a)
          /\ DebugLock = FlagOnA(l)
          /\ DebugUnlock = FlagOnA(u)
          /\ DebugRLock = FlagOnA(r)
          /\ DebugRUnlock = FlagOnA(ru)
    /\ DisableLogging \in BOOLEAN
    /\ GlobalDebug \in BOOLEAN
    /\ refs = ActiveRefs({"A"})
    /\ budget = SmallCalls

SpecDebug == InitDebug /\ [][Next]_vars

\* Goroutine t, holding a lock, calls its release.
Release(t) == Unlock(t) \/ RUnlock(t)

\* The steps at which goroutine t may have to wait its turn behind others:
\* taking mu, announcing itself as a writer to the delegate (the writers'
\* mutex), and entering the delegate as a reader.
Acquire(t) == MuLock(t) \/ RwAnnounce(t) \/ RwRLock(t)

\* Every holder calls its release and every goroutine that can execute its
\* next statement does.  sync's mutexes hand over to every waiter in turn
\* and sync.RWMutex lets the waiting readers in when a writer unlocks, so a
\* goroutine whose Acquire step is enabled again and again takes it; an
\* announced writer needs only the readers to have left, after which its
\* step stays enabled.  Nothing obliges a goroutine to start a Lock, RLock
\* or PrintStatus call.
LiveSpec ==
    /\ Spec
    /\ \A t \in Procs :
          /\ WF_vars(Release(t) \/ Exec(t))
          /\ SF_vars(Acquire(t))

\* The goroutines use the whole method set of the type.
TryNext ==
    \E t \in Procs :
        \/ Call(t)
        \/ Exec(t)
        \/ \E m \in Instances : TryLock(t, m) \/ TryRLock(t, m)

SpecTry == Init /\ [][TryNext]_vars

(***************************************************************************)
(* The writer/reader part of TestLoggedSyncRWMutex.  Goroutine 1 is the    *)
(* writer (lines 49-56), goroutine 2 the reader (lines 61-68), goroutine 3 *)
(* the test function, which waits for both and calls PrintStatus(true).    *)
(* A goroutine's tpc is the line it executes next; a call it has started   *)
(* runs by the steps of Exec.  The sleeps at lines 53 and 58 order nothing *)
(* by themselves; they make the reader call RLock while the writer holds   *)
(* the lock, and the reader's call is enabled in just those states.        *)
(***************************************************************************)
Writer == 1
Reader == 2
Main == 3

Idle(t) == ~crashed /\ op[t] = "none"

\* mux.Lock()
TestLock ==
    /\ tpc[Writer] = "51"
    /\ Lock(Writer, "A")

\* lockHeld = true
SetLockHeld ==
    /\ tpc[Writer] = "51" /\ Idle(Writer) /\ held[Writer] = <<"A", "W">>
    /\ lockHeld' = TRUE
    /\ tpc' = [tpc EXCEPT ![Writer] = "53"]
    /\ UNCHANGED <<DisableLogging, GlobalDebug, DebugAll, DebugLock,
                   DebugUnlock, DebugRLock, DebugRUnlock, refs, tError,
                   counterVars, localVars, mu, RWMutex, out, crashed>>

\* mux.Unlock()
TestUnlock ==
    /\ tpc[Writer] = "53"
    /\ Unlock(Writer)

\* lockHeld = false
ClearLockHeld ==
    /\ tpc[Writer] = "53" /\ Idle(Writer) /\ held[Writer] = NoHold
    /\ lockHeld' = FALSE
    /\ tpc' = [tpc EXCEPT ![Writer] = "56"]
    /\ UNCHANGED <<DisableLogging, GlobalDebug, DebugAll, DebugLock,
                   DebugUnlock, DebugRLock, DebugRUnlock, refs, tError,
                   counterVars, localVars, mu, RWMutex, out, crashed>>

\* mux.RLock(), called while the writer holds the lock
TestRLock ==
    /\ tpc[Reader] = "63"
    /\ held[Writer] = <<"A", "W">>
    /\ RLock(Reader, "A")

\* if lockHeld { t.Error(...) }
ReadLockHeld ==
    /\ tpc[Reader] = "63" /\ Idle(Reader) /\ held[Reader] = <<"A", "R">>
    /\ tError' = lockHeld
    /\ tpc' = [tpc EXCEPT ![Reader] = "67"]
    /\ UNCHANGED <<DisableLogging, GlobalDebug, DebugAll, DebugLock,
                   DebugUnlock, DebugRLock, DebugRUnlock, refs, lockHeld,
                   counterVars, localVars, mu, RWMutex, out, crashed>>

\* mux.RUnlock()
TestRUnlock ==
    /\ tpc[Reader] = "67"
    /\ RUnlock(Reader)

\* wg.Wait(), then mux.PrintStatus(true)
TestPrintStatus ==
    /\ tpc[Main] = "70"
    /\ tpc[Writer] = "56"
    /\ tpc[Reader] = "67" /\ Idle(Reader) /\ held[Reader] = NoHold
    /\ PrintStatus(Main, "A", TRUE)

\* The three goroutines at the start of the scenario, on a fresh instance;
\* the test sets no debug flag, and DisableLogging is set or not.
InitTest ==
    /\ Fresh
    /\ NoDebug
    /\ DisableLogging \in BOOLEAN
    /\ GlobalDebug = FALSE
    /\ lockHeld = FALSE
    /\ tError = FALSE
    /\ tpc = [t \in Procs |-> CASE t = Writer -> "51"
                                 [] t = Reader -> "63"
                                 [] t = Main -> "70"
                                 [] OTHER -> "off"]
    /\ refs = [t \in Procs |-> IF t \in {Writer, Reader, Main} THEN {"A"} ELSE {}]
    /\ budget = 3

TestNext ==
    \/ TestLock \/ SetLockHeld \/ TestUnlock \/ ClearLockHeld
    \/ TestRLock \/ ReadLockHeld \/ TestRUnlock
    \/ TestPrintStatus
    \/ \E t \in Procs : Exec(t)

SpecTest == InitTest /\ [][TestNext]_vars

\* Every goroutine has pointers to both instances; no debug flag is set.
InitMulti ==
    /\ Fresh
    /\ NoDebug
    /\ NoTest
    /\ DisableLogging \in BOOLEAN
    /\ GlobalDebug = FALSE
    /\ refs = [t \in Procs |-> Instances]
    /\ budget = MaxCalls

SpecMulti == InitMulti /\ [][Next]_vars

(***************************************************************************)
(* Properties.                                                             *)
(***************************************************************************)
\* The callers whose Lock ("W") or RLock ("R") on m has returned and that
\* have not yet called the matching release.
Holders(m, mode) == {t \in Procs : held[t] = <<m, mode>>}

\* The goroutines inside a call of one of the methods os on m.
Inside(m, os) == {t \in Procs : op[t] \in os /\ inst[t] = m}

\* The callers that have access of the given mode to m: those holders, and
\* the callers inside the matching release that have not yet released the
\* delegate.
Access(m, mode) ==
    Holders(m, mode)
    \cup {t \in Inside(m, {IF mode = "W" THEN "Unlock" ELSE "RUnlock"}) :
             Kind(t) = (IF mode = "W" THEN "rwUnlock" ELSE "rwRUnlock")}

\* C1: at most one caller has exclusive access to an instance, and never
\* together with a caller that has shared access.
C1_MutualExclusion ==
    \A m \in Instances :
        /\ Cardinality(Access(m, "W")) <= 1
        /\ Access(m, "W") # {} => Access(m, "R") = {}

\* One caller holds exclusive access while a Lock caller and an RLock caller
\* are both stopped at the delegate.
C1_Witness ==
    \E t, u, v \in Procs :
        /\ held[t] = <<"A", "W">>
        /\ op[u] = "Lock" /\ Kind(u) = "rwLock"
        /\ op[v] = "RLock" /\ Kind(v) = "rwRLock"

\* No caller holds or requests the exclusive lock of m: none is inside Lock,
\* none holds it, none is inside Unlock before the delegate release.
NoExclusive(m) ==
    /\ Inside(m, {"Lock"}) = {}
    /\ Holders(m, "W") = {}
    /\ \A u \in Inside(m, {"Unlock"}) : Kind(u) # "rwUnlock"

\* C2: while no caller holds or requests the exclusive lock, a caller inside
\* RLock can always take its next step, whatever the number of shared
\* holders, unless it waits for mu, whose owner can then take a step.
C2_SharedNotBlocked ==
    \A t \in Procs :
        (~crashed /\ op[t] = "RLock" /\ NoExclusive(inst[t])) =>
            \/ ENABLED Exec(t)
            \/ /\ Kind(t) = "muLock"
               /\ \E u \in Procs \ {t} : mu[inst[t]] = u /\ ENABLED Exec(u)

\* Every goroutine holds shared access to "A" at once.
C2_Witness ==
    /\ ~DisableLogging
    /\ \A t \in Procs : held[t] = <<"A", "R">>

\* C3: with logging not disabled and no Lock or Unlock call in progress on m,
\* the N Lock calls that have returned give totalLocked = N; if no pair is
\* open then N Unlock calls have returned, totalUnlocked = N and
\* lockedCount = 0; inside a pair lockedCount = 1.
C3_SerialExclusivePairs ==
    \A m \in Instances :
        (~DisableLogging /\ Inside(m, {"Lock", "Unlock"}) = {}) =>
            LET N == returned[m]["Lock"] IN
            /\ totalLocked[m] = N
            /\ IF Holders(m, "W") = {}
               THEN /\ returned[m]["Unlock"] = N
                    /\ totalUnlocked[m] = N
                    /\ lockedCount[m] = 0
               ELSE /\ totalUnlocked[m] = N - 1
                    /\ lockedCount[m] = 1

\* Two Lock/Unlock pairs are complete and a third is open.
C3_Witness ==
    /\ ~DisableLogging
    /\ Inside("A", {"Lock", "Unlock"}) = {}
    /\ returned["A"]["Lock"] = 3
    /\ returned["A"]["Unlock"] = 2
    /\ Holders("A", "W") # {}

\* C4: with logging not disabled, once every RLock/RUnlock pair on m is
\* complete (no such call in progress, no shared holder), the N pairs give
\* totalrLocked = totalrUnlocked = N and rLockedCount = 0, whatever the
\* interleaving and whatever exclusive calls are in progress.
C4_SharedPairsCounted ==
    \A m \in Instances :
        (~DisableLogging /\ Inside(m, {"RLock", "RUnlock"}) = {}
                         /\ Holders(m, "R") = {}) =>
            LET N == returned[m]["RLock"] IN
            /\ returned[m]["RUnlock"] = N
            /\ totalrLocked[m] = N
            /\ totalrUnlocked[m] = N
            /\ rLockedCount[m] = 0

\* Two shared pairs are complete while another caller is inside Lock.
C4_Witness ==
    /\ ~DisableLogging
    /\ Inside("A", {"RLock", "RUnlock"}) = {}
    /\ Holders("A", "R") = {}
    /\ returned["A"]["RLock"] = 2
    /\ Inside("A", {"Lock"}) # {}

\* No call is in progress on m.
Quiescent(m) == Inside(m, Methods) = {}

\* C5: at every quiescent point totalLocked - totalUnlocked = lockedCount and
\* totalrLocked - totalrUnlocked = rLockedCount.
C5_QuiescentBalance ==
    \A m \in Instances :
        Quiescent(m) =>
            /\ totalLocked[m] - totalUnlocked[m] = lockedCount[m]
            /\ totalrLocked[m] - totalrUnlocked[m] = rLockedCount[m]

\* A quiescent point with two shared holders after one completed shared pair.
C5_Witness ==
    /\ Quiescent("A")
    /\ ~DisableLogging
    /\ rLockedCount["A"] = 2
    /\ totalrUnlocked["A"] = 1

\* The callers between calling Lock and returning from Unlock on m.
ExclActive(m) == Inside(m, {"Lock", "Unlock"}) \cup Holders(m, "W")

\* C6 as stated: lockedCount is 0 or 1 in every reachable state and
\* rLockedCount is not negative.
C6_Original ==
    \A m \in Instances :
        lockedCount[m] \in {0, 1} /\ rLockedCount[m] >= 0

\* C6 amended: lockedCount neither wraps below 0 nor exceeds the number of
\* callers between calling Lock and returning from Unlock, so it is 0 or 1
\* whenever at most one caller is; rLockedCount is not negative.
C6_ActiveCountBounded ==
    \A m \in Instances :
        /\ 0 <= lockedCount[m]
        /\ lockedCount[m] <= Cardinality(ExclActive(m))
        /\ Cardinality(ExclActive(m)) <= 1 => lockedCount[m] \in {0, 1}
        /\ rLockedCount[m] >= 0

\* One caller holds exclusive access while lockedCount is 2.
C6_Witness ==
    \E t \in Procs : held[t] = <<"A", "W">> /\ lockedCount["A"] = 2

\* Goroutine t executes the return statement of PrintStatus in this step.
PrintStatusReturns(t) ==
    /\ op[t] = "PrintStatus"
    /\ Kind(t) = "return"
    /\ pc'[t] # pc[t]

\* C7: whenever PrintStatus returns, locked is true exactly if lockedCount is
\* nonzero and rlocked is true exactly if rLockedCount is nonzero.
C7_StatusResult ==
    [][\A t \in Procs :
          PrintStatusReturns(t) =>
              /\ ret[t][1] = (lockedCount[inst[t]] # 0)
              /\ ret[t][2] = (rLockedCount[inst[t]] # 0)]_vars

\* C8: with logging not disabled, a PrintStatus call has emitted exactly one
\* line when it returns if lockedCount > 0, rLockedCount > 0 or forceprint,
\* and none otherwise.
C8_StatusLine ==
    [][\A t \in Procs :
          (PrintStatusReturns(t) /\ ~DisableLogging) =>
              emitted[t] = IF \/ lockedCount[inst[t]] # 0
                              \/ rLockedCount[inst[t]] # 0
                              \/ forceprint[t]
                           THEN 1 ELSE 0]_vars

\* C9: with logging not disabled, while the delegate is write-locked
\* lockedCount >= 1, and rLockedCount is at least the number of callers
\* holding the delegate shared.
C9_CountersCoverHolds ==
    \A m \in Instances :
        ~DisableLogging =>
            /\ RWMutex[m].w => lockedCount[m] >= 1
            /\ rLockedCount[m] >= RWMutex[m].readers

\* One caller has released the delegate inside RUnlock and not yet
\* decremented, another still holds it shared, and an observer is inside
\* PrintStatus.
C9_Witness ==
    /\ ~DisableLogging
    /\ RWMutex["A"].readers = 1
    /\ rLockedCount["A"] = 2
    /\ \E t, u \in Procs :
          /\ op[t] = "RUnlock" /\ Kind(t) # "rwRUnlock"
          /\ op[u] = "PrintStatus"

\* C10: every PrintStatus call returns, with no help from the delegate or
\* from its holders.
C10_PrintStatusReturns ==
    \A t \in Procs : (op[t] = "PrintStatus") ~> (op[t] = "none")

\* An observer waits for mu, which another observer holds, while a caller
\* holds exclusive access.
C10_Witness ==
    \E t, u, w \in Procs :
        /\ u # t
        /\ op[t] = "PrintStatus" /\ Kind(t) = "muLock"
        /\ op[u] = "PrintStatus" /\ mu["A"] = u
        /\ held[w] = <<"A", "W">>

LockMethods == {"Lock", "Unlock", "RLock", "RUnlock"}

\* The delegate operation of each of them.
DelegateOp(o) ==
    CASE o = "Lock" -> "rwLock"
      [] o = "Unlock" -> "rwUnlock"
      [] o = "RLock" -> "rwRLock"
      [] o = "RUnlock" -> "rwRUnlock"

\* Goroutine t starts a call or executes a statement in this step.
StepOf(t) == op'[t] # op[t] \/ pc'[t] # pc[t] \/ sub'[t] # sub[t]

\* C11: with DisableLogging set, every step of a Lock, Unlock, RLock or
\* RUnlock call, whatever the debug flags, leaves the six counters and mu
\* unchanged; the only statement such a call executes is its delegate
\* operation, after which it returns.
C11_DisabledOnlyDelegates ==
    [][\A t \in Procs :
          (DisableLogging /\ StepOf(t)
              /\ (op[t] \in LockMethods \/ op'[t] \in LockMethods)) =>
              /\ UNCHANGED <<counterVars, mu>>
              /\ op[t] \in LockMethods =>
                    /\ Kind(t) = DelegateOp(op[t])
                    /\ sub'[t] = 0 => op'[t] = "none"]_vars

\* With DisableLogging and every debug flag set, an exclusive and a shared
\* pair are complete.
C11_Witness ==
    /\ DisableLogging /\ GlobalDebug
    /\ DebugAll["A"] /\ DebugLock["A"] /\ DebugUnlock["A"]
    /\ DebugRLock["A"] /\ DebugRUnlock["A"]
    /\ returned["A"]["Unlock"] = 1
    /\ returned["A"]["RUnlock"] = 1
    /\ \A t \in Procs : op[t] = "none"

\* C12: with DisableLogging set before first use, nothing is ever written to
\* the output, whatever the debug flags, GlobalDebug and forceprint.
C12_DisabledSilent ==
    DisableLogging => out = << >>

\* The per-operation debug flag of method o on instance m.
OwnFlag(o, m) ==
    CASE o = "Lock" -> DebugLock[m]
      [] o = "Unlock" -> DebugUnlock[m]
      [] o = "RLock" -> DebugRLock[m]
      [] o = "RUnlock" -> DebugRUnlock[m]

\* C13: with logging not disabled, a Lock, Unlock, RLock or RUnlock call has
\* emitted exactly one line when it returns if its own flag, DebugAll or
\* GlobalDebug is set, and none otherwise; every line such a call emits
\* carries the name of its own operation and instance.
C13_DebugLines ==
    [][\A t \in Procs :
          (~DisableLogging /\ op[t] \in LockMethods) =>
              /\ op'[t] = "none" =>
                    emitted'[t] = IF \/ OwnFlag(op[t], inst[t])
                                     \/ DebugAll[inst[t]]
                                     \/ GlobalDebug
                                  THEN 1 ELSE 0
              /\ emitted'[t] # emitted[t] =>
                    /\ Len(out') = Len(out) + 1
                    /\ out'[Len(out')].op = op[t]
                    /\ out'[Len(out')].name = inst[t]]_vars

\* Only DebugUnlock is set: a Lock/Unlock pair and an RLock/RUnlock pair are
\* complete and the one line written is Unlock's.
C13_Witness ==
    /\ ~DisableLogging /\ ~GlobalDebug /\ ~DebugAll["A"]
    /\ DebugUnlock["A"]
    /\ ~DebugLock["A"] /\ ~DebugRLock["A"] /\ ~DebugRUnlock["A"]
    /\ returned["A"]["Unlock"] = 1
    /\ returned["A"]["RUnlock"] = 1
    /\ Len(out) = 1 /\ out[1].op = "Unlock"

\* C14: in the writer/reader scenario the reader, whose RLock was called
\* while the writer held the lock, never reads lockHeld as true after its
\* RLock has returned (the test reports no failure).
C14_ReaderSeesReleased ==
    ~tError

\* Counter c of m is unchanged or larger by exactly 1 after this step.
SameOrNext(c, m) == c'[m] = c[m] \/ c'[m] = c[m] + 1

\* C15: every step leaves each of the four lifetime totals unchanged or
\* larger by exactly 1, and no step of a PrintStatus call changes any of the
\* six counters.
C15_TotalsMonotonic ==
    [][/\ \A m \in Instances :
             /\ SameOrNext(totalLocked, m)
             /\ SameOrNext(totalUnlocked, m)
             /\ SameOrNext(totalrLocked, m)
             /\ SameOrNext(totalrUnlocked, m)
       /\ \A t \in Procs :
             (StepOf(t) /\ (op[t] = "PrintStatus" \/ op'[t] = "PrintStatus"))
                 => UNCHANGED counterVars]_vars

\* Each total is 1 and a PrintStatus call has returned.
C15_Witness ==
    /\ totalLocked["A"] = 1 /\ totalUnlocked["A"] = 1
    /\ totalrLocked["A"] = 1 /\ totalrUnlocked["A"] = 1
    /\ returned["A"]["PrintStatus"] = 1

\* Goroutine t holds the delegate, or has started to acquire it: it is a
\* holder between calls, or inside Lock/RLock past the start of the delegate
\* acquire, or inside Unlock/RUnlock with the delegate release still to come.
HoldsDelegate(t) ==
    \/ held[t] # NoHold
    \/ /\ op[t] \in {"Lock", "RLock"}
       /\ \/ \E i \in 1..(pc[t] - 1) : Body(op[t])[i][1] = DelegateOp(op[t])
          \/ Kind(t) = DelegateOp(op[t]) /\ sub[t] # 0
    \/ /\ op[t] \in {"Unlock", "RUnlock"}
       /\ \E i \in pc[t]..Len(Body(op[t])) : Body(op[t])[i][1] = DelegateOp(op[t])

\* C16: a caller inside Lock, Unlock, RLock or RUnlock that emits a line does
\* not hold the delegate at that step, and a caller inside Lock or RLock
\* that has reached the delegate acquire does not own mu.
C16_NoLineWhileHolding ==
    [][\A t \in Procs :
          op[t] \in LockMethods =>
              /\ emitted'[t] # emitted[t] => ~HoldsDelegate(t)
              /\ (op[t] \in {"Lock", "RLock"} /\ Kind(t) = DelegateOp(op[t]))
                    => mu[inst[t]] # t]_vars

\* A caller inside Unlock and a caller inside RLock have each written their
\* line; the second has yet to acquire the delegate.
C16_Witness ==
    \E t, u \in Procs :
        /\ op[t] = "Unlock" /\ emitted[t] = 1
        /\ op[u] = "RLock" /\ emitted[u] = 1 /\ Kind(u) = "rwRLock"
        /\ Len(out) >= 3

\* The instance of the call goroutine t starts or continues in this step.
StepInst(t) == IF op[t] # "none" THEN inst[t] ELSE inst'[t]

\* Goroutine u is inside a call on m or holds m.
Uses(u, m) == inst[u] = m \/ held[u][1] = m

\* C17: a step of an operation on one instance leaves the six counters, mu
\* and the delegate of every other instance unchanged; and a caller inside
\* an operation on an instance that no other goroutine uses can take its
\* next step, whatever is held or waited for on the other instances.
C17_InstancesIndependent ==
    /\ [][\A t \in Procs :
             StepOf(t) =>
                 \A n \in Instances \ {StepInst(t)} :
                     /\ lockedCount'[n] = lockedCount[n]
                     /\ rLockedCount'[n] = rLockedCount[n]
                     /\ totalLocked'[n] = totalLocked[n]
                     /\ totalUnlocked'[n] = totalUnlocked[n]
                     /\ totalrLocked'[n] = totalrLocked[n]
                     /\ totalrUnlocked'[n] = totalrUnlocked[n]
                     /\ mu'[n] = mu[n]
                     /\ RWMutex'[n] = RWMutex[n]]_vars
    /\ [](\A t \in Procs :
             (Running(t) /\ \A u \in Procs \ {t} : ~Uses(u, inst[t]))
                 => ENABLED Exec(t))

\* One caller holds "B" exclusively, another waits for the delegate of "B",
\* and a third, inside Lock on "A", has counted itself and is the only user
\* of "A".
C17_Witness ==
    \E t, u, v \in Procs :
        /\ held[t] = <<"B", "W">>
        /\ op[u] = "RLock" /\ inst[u] = "B" /\ Kind(u) = "rwRLock"
        /\ op[v] = "Lock" /\ inst[v] = "A" /\ Kind(v) = "rwLock"
        /\ lockedCount = [m \in Instances |-> 1]

\* Goroutine t has executed statement s of the method it is inside.
Executed(t, s) ==
    \E i \in 1..(pc[t] - 1) : Body(op[t])[i] = s

\* The callers that have executed the increment of counter c in acq on m and
\* not yet its decrement in rel: inside acq past the increment, holding m in
\* the given mode, or inside rel before the decrement.
Counted(m, acq, rel, c, mode) ==
    {t \in Procs :
        \/ op[t] = acq /\ inst[t] = m /\ Executed(t, <<"inc", c>>)
        \/ held[t] = <<m, mode>>
        \/ op[t] = rel /\ inst[t] = m /\ ~Executed(t, <<"dec", c>>)}

\* C18: with logging not disabled, lockedCount is the number of callers that
\* have executed Lock's increment and not yet Unlock's decrement, likewise
\* rLockedCount for RLock and RUnlock, and every caller that has reached the
\* delegate acquire is among them.
C18_CountsBeforeDelegating ==
    ~DisableLogging =>
        \A m \in Instances :
            LET W == Counted(m, "Lock", "Unlock", "lockedCount", "W")
                R == Counted(m, "RLock", "RUnlock", "rLockedCount", "R")
            IN /\ lockedCount[m] = Cardinality(W)
               /\ rLockedCount[m] = Cardinality(R)
               /\ \A t \in Inside(m, {"Lock"}) : Kind(t) = "rwLock" => t \in W
               /\ \A t \in Inside(m, {"RLock"}) : Kind(t) = "rwRLock" => t \in R

\* Two Lock callers have counted themselves and are at the delegate acquire;
\* a third caller, inside RUnlock, has released the delegate and has not yet
\* decremented rLockedCount.
C18_Witness ==
    \E t, u, v \in Procs :
        /\ t # u
        /\ op[t] = "Lock" /\ Kind(t) = "rwLock"
        /\ op[u] = "Lock" /\ Kind(u) = "rwLock"
        /\ op[v] = "RUnlock" /\ Kind(v) = "dec"
        /\ lockedCount["A"] = 2 /\ rLockedCount["A"] = 1

\* C19: the owner of mu is inside a call on that instance, its next statement
\* is not a delegate operation, and it can execute that statement.
C19_MuNotHeldAcrossDelegate ==
    \A m \in Instances, t \in Procs :
        mu[m] = t =>
            /\ Running(t) /\ inst[t] = m
            /\ Kind(t) \notin {"rwLock", "rwUnlock", "rwRLock", "rwRUnlock"}
            /\ ENABLED Exec(t)

\* A caller inside RLock owns mu while a Lock caller, which does not, waits
\* for the delegate, held by a reader.
C19_Witness ==
    \E t, u, v \in Procs :
        /\ mu["A"] = t /\ op[t] = "RLock"
        /\ op[u] = "Lock" /\ Kind(u) = "rwLock" /\ sub[u] = 1
        /\ held[v] = <<"A", "R">>

\* C20: under LiveSpec every Lock call returns with its caller holding
\* exclusive access and every RLock call returns with its caller holding
\* shared access.
C20_AcquiresReturn ==
    /\ \A t \in Procs :
          (op[t] \in {"Lock", "RLock"}) ~> (op[t] = "none" /\ held[t] # NoHold)
    /\ [][\A t \in Procs :
             (op[t] \in {"Lock", "RLock"} /\ op'[t] = "none") =>
                 IF op[t] = "Lock"
                 THEN held'[t] = <<inst[t], "W">> /\ RWMutex'[inst[t]].w
                 ELSE held'[t] = <<inst[t], "R">> /\ ~RWMutex'[inst[t]].w
                      /\ RWMutex'[inst[t]].readers >= 1]_vars

\* A writer has announced itself and waits for a reader to leave, and a
\* second reader waits behind the writer.
C20_Witness ==
    \E t, u, v \in Procs :
        /\ op[t] = "Lock" /\ Kind(t) = "rwLock" /\ sub[t] = 1
        /\ op[u] = "RLock" /\ Kind(u) = "rwRLock"
        /\ held[v] = <<"A", "R">>
        /\ RWMutex["A"].readers = 1

\* The two counter relations on instance m.
Balanced(m) ==
    /\ totalLocked[m] - totalUnlocked[m] = lockedCount[m]
    /\ totalrLocked[m] - totalrUnlocked[m] = rLockedCount[m]

\* C21: totalLocked - totalUnlocked = lockedCount and totalrLocked -
\* totalrUnlocked = rLockedCount in every state in which mu is free, and in
\* every state in which a caller inside PrintStatus owns mu.
C21_BalancedWhenMuFree ==
    \A m \in Instances :
        (mu[m] = NoProc \/ mu[m] \in Inside(m, {"PrintStatus"})) => Balanced(m)

\* mu is free while one Lock caller is at the delegate acquire and a caller
\* inside Unlock has released the delegate and not yet decremented.
C21_Witness ==
    /\ mu["A"] = NoProc
    /\ lockedCount["A"] = 2 /\ totalUnlocked["A"] = 0
    /\ \E t, u \in Procs :
          /\ op[t] = "Unlock" /\ Kind(t) = "muLock"
          /\ op[u] = "Lock" /\ Kind(u) = "rwLock"

\* C22: every step of a lockedCount-- or rLockedCount-- is taken in a state
\* in which that counter is at least 1, and the value it stores is the
\* counter less one; neither counter is ever below 0.
C22_NoWrapAround ==
    /\ [][\A t \in Procs :
             (op[t] # "none" /\ Kind(t) = "dec" /\ StepOf(t)) =>
                 /\ Counter(inst[t], Stmt(t)[2]) >= 1
                 /\ sub[t] = 1 => reg[t] = Counter(inst[t], Stmt(t)[2])]_vars
    /\ [](\A m \in Instances : lockedCount[m] >= 0 /\ rLockedCount[m] >= 0)

\* A caller inside Unlock has loaded lockedCount = 1 and a caller inside
\* RUnlock is about to load rLockedCount = 1.
C22_Witness ==
    \E t, u \in Procs :
        /\ op[t] = "Unlock" /\ Kind(t) = "dec" /\ sub[t] = 1 /\ reg[t] = 1
        /\ lockedCount["A"] = 1
        /\ op[u] = "RUnlock" /\ Kind(u) = "muLock"
        /\ rLockedCount["A"] = 1

\* C23: with TryLock and TryRLock in use next to the other methods, neither
\* active counter of any instance is ever driven below zero.
C23_TryPairsKeepCounters ==
    \A m \in Instances :
        ~(lockedCount[m] < 0) /\ ~(rLockedCount[m] < 0)

\* Goroutine t, inside Lock, Unlock, RLock or RUnlock, has executed a counter
\* update of this call and has yet to execute the call's print statement.
Reporting(t) ==
    /\ op[t] \in LockMethods
    /\ \E i \in 1..(pc[t] - 1) : Body(op[t])[i][1] \in {"inc", "dec"}
    /\ \E i \in pc[t]..Len(Body(op[t])) : Body(op[t])[i][1] = "print"

\* The counters of instance m.
CountersOf(m) ==
    <<lockedCount[m], rLockedCount[m], totalLocked[m], totalUnlocked[m],
      totalrLocked[m], totalrUnlocked[m]>>

\* The number of lines among the first n written by operation o on m.
LinesSoFar(o, m, n) ==
    Cardinality({j \in 1..n : out[j].op = o /\ out[j].name = m})

\* C24: from its first counter update to its print statement a caller owns mu
\* and no other goroutine changes a counter of the instance, so its line
\* shows the values its own updates left; and the k-th line written by an
\* operation on an instance shows k as that operation's lifetime total.
C24_LinesInCounterOrder ==
    /\ [][\A t \in Procs :
             Reporting(t) =>
                 /\ mu[inst[t]] = t
                 /\ CountersOf(inst[t])' # CountersOf(inst[t]) => StepOf(t)
                 /\ emitted'[t] # emitted[t] =>
                       out'[Len(out')].vals =
                           <<Counter(inst[t], Stmt(t)[4]),
                             Counter(inst[t], Stmt(t)[5])>>]_vars
    /\ [](\A i \in DOMAIN out :
             out[i].op \in LockMethods =>
                 out[i].vals[2] = LinesSoFar(out[i].op, out[i].name, i))

\* Two concurrent Lock callers have each written their line, the second
\* showing lockedCount = 2 and totalLocked = 2; neither holds the lock yet.
C24_Witness ==
    /\ Len(out) = 2
    /\ out[1].op = "Lock" /\ out[1].vals = <<1, 1>>
    /\ out[2].op = "Lock" /\ out[2].vals = <<2, 2>>
    /\ \A t \in Procs : held[t] = NoHold
    /\ RWMutex["A"].w = FALSE

====
